---- MODULE Spec2Model ----
(***************************************************************************)
(* Model of YoutubeCommentSentiment.py: the comment cleaning functions     *)
(* (remove_emoji, remove_non_english, clean_comments), the classifier      *)
(* (get_sentiment), the dataframe builder (build_sentiment_df) and the     *)
(* command-line script (__main__).                                         *)
(*                                                                         *)
(* A Python str is a sequence of code points, each written as a one-letter *)
(* TLA+ string.  The code points of the model are                          *)
(*    "g"  an English word of positive polarity                            *)
(*    "b"  an English word of negative polarity                            *)
(*    "f"  a French word (polarity 0 for the English lexicon)              *)
(*    "W"  U+1F469 WOMAN          (an emoji)                               *)
(*    "Z"  U+200D  ZERO WIDTH JOINER (not an emoji by itself)              *)
(*    "L"  U+1F4BB LAPTOP         (an emoji)                               *)
(* and W Z L is the emoji ZWJ sequence "woman technologist".               *)
(***************************************************************************)
EXTENDS Integers, Sequences, FiniteSets, TLC

VARIABLES
    \* ---- the script (__main__) ----
    pc,             \* position of the script
    args,           \* argparse namespace: [videoid, csv]
    youtube,        \* the API client object, or NoObject before build()
    video_comments, \* the list object fetched, then cleaned in place
    index,          \* loop index of clean_comments (1-based)
    df,             \* the dataframe: sequence of rows (records)
    count_nan,      \* local count_nan of build_sentiment_df
    console,        \* the messages the script has printed, in order
    summary,        \* the value_counts() the script has printed
    csv_file,       \* the exported file, or NoFile
    error,          \* the uncaught exception that ended the script, or "none"
    \* ---- observations of the run (history, not program state) ----
    fetched,        \* the list as the fetch returned it
    fetch_failed,   \* the fetch raised HttpError
    sanitized,      \* per index, what remove_emoji returned
    classified,     \* the arguments get_sentiment was called with, in order
    steps,          \* the statements of __main__ executed so far
    \* ---- a single call of one of the functions ----
    fn,             \* which function was called ("none" before the call)
    arg,            \* its argument
    ret,            \* the text it returned
    label           \* the label it returned (get_sentiment)

vars == <<pc, args, youtube, video_comments, index, df, count_nan, console,
          summary, csv_file, error, fetched, fetch_failed, sanitized,
          classified, steps, fn, arg, ret, label>>

mainVars == <<pc, args, youtube, video_comments, index, df, count_nan, console,
              summary, csv_file, error, fetched, fetch_failed, sanitized,
              classified, steps>>

callVars == <<fn, arg, ret, label>>

(***************************************************************************)
(* Bounds                                                                  *)
(***************************************************************************)
\* longest argument text of a single function call
MaxLen == 4
\* most comments one fetch returns (the code asks for at most results_cap)
MaxComments == 3

(***************************************************************************)
(* Values                                                                  *)
(***************************************************************************)
Alphabet == {"g", "b", "f", "W", "Z", "L"}

\* the empty string ''
EMPTY == <<>>
\* Python None in a slot that otherwise holds a str
None == <<"None">>
\* numpy.nan in a slot that otherwise holds a str
NaN == <<"NaN">>
\* an exception leaving a function that otherwise returns a str
RAISE == <<"raise">>
\* Python None in a slot that otherwise holds a label
NoLabel == "None"

Labels == {"Positive", "Negative", "Neutral"}

TextsUpTo(n) == UNION {[1..k -> Alphabet] : k \in 0..n}

Texts == TextsUpTo(MaxLen)

Count(s, c) == Cardinality({i \in DOMAIN s : s[i] = c})

(***************************************************************************)
(* demoji.findall: the emoji of a text.  The library matches one regular   *)
(* expression, the alternation of all known emoji sorted longest first,    *)
(* scanning left to right without overlap, and returns the set of matches. *)
(***************************************************************************)
EmojiTable == {<<"W">>, <<"L">>, <<"W", "Z", "L">>}

MatchAt(s, i) ==
    {e \in EmojiTable :
        /\ i + Len(e) - 1 <= Len(s)
        /\ SubSeq(s, i, i + Len(e) - 1) = e}

Longest(S) == CHOOSE e \in S : \A f \in S : Len(f) <= Len(e)

RECURSIVE Scan(_, _)
Scan(s, i) ==
    IF i > Len(s) THEN {}
    ELSE LET m == MatchAt(s, i) IN
         IF m = {} THEN Scan(s, i + 1)
         ELSE {Longest(m)} \cup Scan(s, i + Len(Longest(m)))

findall(text) == Scan(text, 1)

(***************************************************************************)
(* str.replace(old, ''): every non-overlapping occurrence, leftmost first. *)
(***************************************************************************)
RECURSIVE ReplaceFrom(_, _, _)
ReplaceFrom(s, old, i) ==
    IF i > Len(s) THEN <<>>
    ELSE IF /\ i + Len(old) - 1 <= Len(s)
            /\ SubSeq(s, i, i + Len(old) - 1) = old
         THEN ReplaceFrom(s, old, i + Len(old))
         ELSE <<s[i]>> \o ReplaceFrom(s, old, i + 1)

replace(s, old) == ReplaceFrom(s, old, 1)

(***************************************************************************)
(* remove_emoji.  The loop runs over the keys of the dict that findall     *)
(* builds from a set of strings, so the order of the keys is the set's     *)
(* iteration order, which varies from process to process (string hashing   *)
(* is randomised).  RemoveKeys is the set of texts the loop can end with,  *)
(* one per order of the keys.                                              *)
(***************************************************************************)
RECURSIVE RemoveKeys(_, _)
RemoveKeys(demoji_text, keys) ==
    IF keys = {} THEN {demoji_text}
    ELSE UNION {RemoveKeys(replace(demoji_text, emoji), keys \ {emoji}) :
                    emoji \in keys}

remove_emoji(text) == RemoveKeys(text, findall(text))

(***************************************************************************)
(* langdetect.detect: raises when the text has no feature to go by (no     *)
(* letters), otherwise reports the language most of the words belong to.   *)
(***************************************************************************)
DetectRaises(text) == Count(text, "g") + Count(text, "b") + Count(text, "f") = 0

detect(text) ==
    IF Count(text, "g") + Count(text, "b") >= Count(text, "f")
    THEN "en" ELSE "fr"

(***************************************************************************)
(* remove_non_english: the text when detect says 'en'; '' when detect      *)
(* raises (bare except); and, when detect reports another language, the    *)
(* function falls off its end, which in Python returns None.               *)
(***************************************************************************)
remove_non_english_reraise(text) ==
    IF DetectRaises(text) THEN RAISE
    ELSE IF detect(text) = "en" THEN text
    ELSE None

remove_non_english(text) ==
    IF DetectRaises(text) THEN EMPTY
    ELSE IF detect(text) = "en" THEN text
    ELSE None

(***************************************************************************)
(* TextBlob(text).sentiment.polarity, as a signed count (the sign is all   *)
(* the code looks at).                                                     *)
(***************************************************************************)
polarity(text) == Count(text, "g") - Count(text, "b")

(***************************************************************************)
(* get_sentiment: assigns the label to the local `result` and ends without *)
(* a return statement, so every call returns None.                         *)
(***************************************************************************)
get_sentiment(text) ==
    LET sentiment == polarity(text)
        result == IF sentiment > 0 THEN "Positive"
                  ELSE IF sentiment < 0 THEN "Negative"
                  ELSE "Neutral"
    IN  NoLabel

(***************************************************************************)
(* pandas, as build_sentiment_df uses it.  A dataframe is its column names *)
(* and its rows; a row keeps the index label it was created with, so a row *)
(* that survives dropna still names the position of its comment.           *)
(***************************************************************************)
\* pd.DataFrame(list of str): one column named 0, or no column for []
DataFrame(comments) ==
    [columns |-> IF Len(comments) = 0 THEN <<>> ELSE <<"0">>,
     rows    |-> [k \in 1..Len(comments) |->
                    [idx |-> k, Comment |-> comments[k], Sentiment |-> NoLabel]]]

isna(v) == v \in {None, NaN}

\* df['Comment'].replace('', np.nan, inplace = True), with the pandas
\* semantics the script was written for (the column is updated in place)
replace_empty(rows) ==
    [k \in DOMAIN rows |->
        IF rows[k].Comment = EMPTY THEN [rows[k] EXCEPT !.Comment = NaN]
        ELSE rows[k]]

\* df['Comment'].isna().sum()
isna_sum(rows) == Cardinality({k \in DOMAIN rows : isna(rows[k].Comment)})

keep_all(rows) == rows

\* df.dropna(subset=['Comment'], inplace = True)
dropna(rows) == SelectSeq(rows, LAMBDA r : ~isna(r.Comment))

\* df['Comment'].apply(get_sentiment)
apply_get_sentiment(rows) ==
    [k \in DOMAIN rows |-> [rows[k] EXCEPT !.Sentiment = get_sentiment(rows[k].Comment)]]

\* df['Sentiment'].value_counts(): the values that occur, None/NaN left out
value_counts(rows) ==
    [l \in {rows[k].Sentiment : k \in DOMAIN rows} \ {NoLabel} |->
        Cardinality({k \in DOMAIN rows : rows[k].Sentiment = l})]

(***************************************************************************)
(* The script                                                              *)
(***************************************************************************)
\* an option that was not given on the command line (argparse default None)
NoArg == "<None>"

NoObject == "<None>"

VideoIds == {NoArg, "", "vid"}

CsvChoices == {NoArg, "y", "n"}

NoFile == [written |-> FALSE, name |-> <<>>, header |-> <<>>, rows |-> <<>>]

NoSummary == [printed |-> FALSE, counts |-> <<>>]

\* the comments a video can have: one text of each kind the functions tell apart
CommentPool ==
    { <<>>,                      \* ''
      <<"g">>,                   \* English, positive
      <<"b">>,                   \* English, negative
      <<"g", "b">>,              \* English, polarity 0
      <<"f">>,                   \* French
      <<"W">>,                   \* an emoji and nothing else
      <<"g", "W">>,              \* English with an emoji
      <<"W", "Z", "L", "W">> }   \* an emoji sequence and one of its parts

CommentLists == UNION {[1..n -> CommentPool] : n \in 0..MaxComments}

InitCall ==
    /\ fn = "none"
    /\ arg = EMPTY
    /\ ret = EMPTY
    /\ label = NoLabel

InitMain ==
    /\ pc = "check_videoid"
    /\ youtube = NoObject
    /\ video_comments = <<>>
    /\ index = 1
    /\ df = DataFrame(<<>>)
    /\ count_nan = 0
    /\ console = <<>>
    /\ summary = NoSummary
    /\ csv_file = NoFile
    /\ error = "none"
    /\ fetched = <<>>
    /\ fetch_failed = FALSE
    /\ sanitized = <<>>
    /\ classified = <<>>
    /\ steps = {}

\* after parser.parse_args() (lines 182-185)
Init ==
    /\ args \in [videoid : VideoIds, csv : CsvChoices]
    /\ InitMain
    /\ InitCall

\* lines 187-189 with the guard removed
CheckVideoId_unguarded ==
    /\ pc = "check_videoid"
    /\ pc' = "build"
    /\ steps' = steps \cup {"check_videoid"}
    /\ UNCHANGED <<args, youtube, video_comments, index, df, count_nan, console,
                   summary, csv_file, error, fetched, fetch_failed, sanitized,
                   classified>>
    /\ UNCHANGED callVars

\* lines 187-189: `not args.videoid` is true of None and of ''
CheckVideoId ==
    /\ pc = "check_videoid"
    /\ steps' = steps \cup {"check_videoid"}
    /\ IF args.videoid \in {NoArg, ""}
       THEN /\ pc' = "exited"
            /\ console' = Append(console, "Please specify videoid using the --videoid= parameter.")
       ELSE /\ pc' = "build"
            /\ console' = console
    /\ UNCHANGED <<args, youtube, video_comments, index, df, count_nan,
                   summary, csv_file, error, fetched, fetch_failed, sanitized,
                   classified>>
    /\ UNCHANGED callVars

\* line 191
BuildClient ==
    /\ pc = "build"
    /\ youtube' = "client"
    /\ pc' = "fetch"
    /\ steps' = steps \cup {"build"}
    /\ UNCHANGED <<args, video_comments, index, df, count_nan, console,
                   summary, csv_file, error, fetched, fetch_failed, sanitized,
                   classified>>
    /\ UNCHANGED callVars

\* lines 194-197: get_youtube_comment_threads returns the texts of one page
FetchOk ==
    /\ pc = "fetch"
    /\ \E comments_text \in CommentLists :
          /\ video_comments' = comments_text
          /\ fetched' = comments_text
    /\ console' = Append(console, "Comments successfully accessed.")
    /\ index' = 1
    /\ pc' = "clean"
    /\ steps' = steps \cup {"fetch"}
    /\ UNCHANGED <<args, youtube, df, count_nan, summary, csv_file, error,
                   fetch_failed, sanitized, classified>>
    /\ UNCHANGED callVars

\* lines 194-199: the request raises HttpError; video_comments stays []
FetchHttpError ==
    /\ pc = "fetch"
    /\ video_comments' = <<>>
    /\ fetched' = <<>>
    /\ fetch_failed' = TRUE
    /\ console' = Append(console, "An HTTP error occurred")
    /\ index' = 1
    /\ pc' = "clean"
    /\ steps' = steps \cup {"fetch"}
    /\ UNCHANGED <<args, youtube, df, count_nan, summary, csv_file, error,
                   sanitized, classified>>
    /\ UNCHANGED callVars

\* one iteration of the loop, deleting an excluded comment from the list
CleanStep_dropping ==
    /\ pc = "clean"
    /\ index <= Len(video_comments)
    /\ \E demoji_text \in remove_emoji(video_comments[index]) :
          LET r == remove_non_english(demoji_text) IN
          /\ sanitized' = Append(sanitized, demoji_text)
          /\ IF r \in {EMPTY, None}
             THEN /\ video_comments' =
                        SubSeq(video_comments, 1, index - 1)
                        \o SubSeq(video_comments, index + 1, Len(video_comments))
                  /\ index' = index
             ELSE /\ video_comments' = [video_comments EXCEPT ![index] = r]
                  /\ index' = index + 1
    /\ steps' = steps \cup {"clean"}
    /\ UNCHANGED <<pc, args, youtube, df, count_nan, console, summary, csv_file,
                   error, fetched, fetch_failed, classified>>
    /\ UNCHANGED callVars

\* lines 119-123: one iteration of the loop of clean_comments; an exception
\* leaving remove_non_english would leave clean_comments and the script
CleanStep ==
    /\ pc = "clean"
    /\ index <= Len(video_comments)
    /\ \E demoji_text \in remove_emoji(video_comments[index]) :
          LET r == remove_non_english(demoji_text) IN
          /\ sanitized' = Append(sanitized, demoji_text)
          /\ IF r = RAISE
             THEN /\ pc' = "error"
                  /\ error' = "LangDetectException"
                  /\ UNCHANGED <<video_comments, index>>
             ELSE /\ video_comments' = [video_comments EXCEPT ![index] = r]
                  /\ index' = index + 1
                  /\ UNCHANGED <<pc, error>>
    /\ steps' = steps \cup {"clean"}
    /\ UNCHANGED <<args, youtube, df, count_nan, console, summary, csv_file,
                   fetched, fetch_failed, classified>>
    /\ UNCHANGED callVars

\* line 124 and line 202: the loop is over, the same list is returned
CleanReturn ==
    /\ pc = "clean"
    /\ index > Len(video_comments)
    /\ pc' = "build_df"
    /\ steps' = steps \cup {"clean"}
    /\ UNCHANGED <<args, youtube, video_comments, index, df, count_nan, console,
                   summary, csv_file, error, fetched, fetch_failed, sanitized,
                   classified>>
    /\ UNCHANGED callVars

\* lines 167-168: naming the one column; a frame built from [] has no column
\* and the assignment raises ValueError (length mismatch), which nothing catches
DfConstruct ==
    /\ pc = "build_df"
    /\ LET frame == DataFrame(video_comments) IN
       IF Len(frame.columns) # 1
       THEN /\ pc' = "error"
            /\ error' = "ValueError"
            /\ df' = frame
       ELSE /\ pc' = "dropna"
            /\ error' = error
            /\ df' = [frame EXCEPT !.columns = <<"Comment">>]
    /\ steps' = steps \cup {"build_df"}
    /\ UNCHANGED <<args, youtube, video_comments, index, count_nan, console,
                   summary, csv_file, fetched, fetch_failed, sanitized,
                   classified>>
    /\ UNCHANGED callVars

\* lines 170-172
DfDropEmpty ==
    /\ pc = "dropna"
    /\ LET replaced == replace_empty(df.rows) IN
       /\ count_nan' = isna_sum(replaced)
       /\ df' = [df EXCEPT !.rows = dropna(replaced)]
    /\ pc' = "apply"
    /\ steps' = steps \cup {"dropna"}
    /\ UNCHANGED <<args, youtube, video_comments, index, console, summary,
                   csv_file, error, fetched, fetch_failed, sanitized, classified>>
    /\ UNCHANGED callVars

\* line 174: get_sentiment is called once per row, in row order
DfApply ==
    /\ pc = "apply"
    /\ classified' = classified \o [k \in DOMAIN df.rows |-> df.rows[k].Comment]
    /\ df' = [columns |-> <<"Comment", "Sentiment">>,
              rows    |-> apply_get_sentiment(df.rows)]
    /\ pc' = "print"
    /\ steps' = steps \cup {"apply"}
    /\ UNCHANGED <<args, youtube, video_comments, index, count_nan, console,
                   summary, csv_file, error, fetched, fetch_failed, sanitized>>
    /\ UNCHANGED callVars

\* lines 175-177 and line 203
DfPrint ==
    /\ pc = "print"
    /\ console' = Append(console, "Summary of sentiment in all Comments")
    /\ summary' = [printed |-> TRUE, counts |-> value_counts(df.rows)]
    /\ pc' = "export"
    /\ steps' = steps \cup {"print"}
    /\ UNCHANGED <<args, youtube, video_comments, index, df, count_nan,
                   csv_file, error, fetched, fetch_failed, sanitized, classified>>
    /\ UNCHANGED callVars

\* lines 205-206: to_csv writes the index column, the two columns and the rows
ExportCsv ==
    /\ pc = "export"
    /\ args.csv = "y"
    /\ csv_file' = [written |-> TRUE,
                    name    |-> <<"SentimentComments_", args.videoid, ".csv">>,
                    header  |-> <<"">> \o df.columns,
                    rows    |-> df.rows]
    /\ pc' = "done"
    /\ steps' = steps \cup {"export"}
    /\ UNCHANGED <<args, youtube, video_comments, index, df, count_nan, console,
                   summary, error, fetched, fetch_failed, sanitized, classified>>
    /\ UNCHANGED callVars

\* line 205: --csv was 'n' or was not given
SkipExport ==
    /\ pc = "export"
    /\ args.csv # "y"
    /\ pc' = "done"
    /\ steps' = steps \cup {"export"}
    /\ UNCHANGED <<args, youtube, video_comments, index, df, count_nan, console,
                   summary, csv_file, error, fetched, fetch_failed, sanitized,
                   classified>>
    /\ UNCHANGED callVars

Next ==
    \/ CheckVideoId
    \/ BuildClient
    \/ FetchOk
    \/ FetchHttpError
    \/ CleanStep
    \/ CleanReturn
    \/ DfConstruct
    \/ DfDropEmpty
    \/ DfApply
    \/ DfPrint
    \/ ExportCsv
    \/ SkipExport

Spec == Init /\ [][Next]_vars

(***************************************************************************)
(* A single call of one function on one text                               *)
(***************************************************************************)
InitSingleCall ==
    /\ arg \in Texts
    /\ fn = "none"
    /\ ret = EMPTY
    /\ label = NoLabel
    /\ args = [videoid |-> NoArg, csv |-> NoArg]
    /\ InitMain

\* lines 75-79
CallRemoveEmoji ==
    /\ fn = "none"
    /\ fn' = "remove_emoji"
    /\ ret' \in remove_emoji(arg)
    /\ UNCHANGED <<arg, label>>
    /\ UNCHANGED mainVars

\* lines 96-102
CallRemoveNonEnglish ==
    /\ fn = "none"
    /\ fn' = "remove_non_english"
    /\ ret' = remove_non_english(arg)
    /\ UNCHANGED <<arg, label>>
    /\ UNCHANGED mainVars

\* lines 142-149
CallGetSentiment ==
    /\ fn = "none"
    /\ fn' = "get_sentiment"
    /\ label' = get_sentiment(arg)
    /\ UNCHANGED <<arg, ret>>
    /\ UNCHANGED mainVars

NextCall ==
    \/ CallRemoveEmoji
    \/ CallRemoveNonEnglish
    \/ CallGetSentiment

SpecCall == InitSingleCall /\ [][NextCall]_vars

(***************************************************************************)
(* Properties                                                              *)
(***************************************************************************)
\* a cleaned entry that stands for "excluded from the analysis"
Excluded(c) == c \in {EMPTY, None}

\* build_sentiment_df has run to its end, by returning or by raising
BuildEnded == pc \in {"export", "done"} \/ error = "ValueError"

\* C1: get_sentiment returns exactly one of Positive, Negative, Neutral, and
\* which one is decided by the sign of the polarity: > 0 Positive, < 0
\* Negative, = 0 Neutral.  (SpecCall)
C1_LabelBySign ==
    fn = "get_sentiment" =>
        /\ label \in Labels
        /\ (polarity(arg) > 0 => label = "Positive")
        /\ (polarity(arg) < 0 => label = "Negative")
        /\ (polarity(arg) = 0 => label = "Neutral")

\* C2: remove_non_english returns the text unchanged when the detected
\* language is English and the empty string when it is any other language.
\* (SpecCall)
C2_FilterByLanguage ==
    (fn = "remove_non_english" /\ ~DetectRaises(arg)) =>
        /\ (detect(arg) = "en" => ret = arg)
        /\ (detect(arg) # "en" => ret = EMPTY)

\* C3: when language detection raises on a (sanitized) comment, the slot
\* of that comment holds the empty string, and no detection failure ever ends
\* the script: clean_comments never leaves by an exception.
C3_DetectionFailureRecovered ==
    /\ error # "LangDetectException"
    /\ (pc = "clean" => error = "none")
    /\ \A i \in 1..Len(sanitized) :
          DetectRaises(sanitized[i]) =>
              /\ i <= Len(video_comments)
              /\ video_comments[i] = EMPTY

C3_Witness ==
    /\ pc = "build_df"
    /\ error = "none"
    /\ Len(fetched) >= 2
    /\ \E i \in 1..Len(sanitized) :
          DetectRaises(sanitized[i]) /\ video_comments[i] = EMPTY
    /\ \E i \in 1..Len(sanitized) : ~DetectRaises(sanitized[i])

C5_RowsAndCount ==
    BuildEnded =>
        /\ error = "none"
        /\ [k \in DOMAIN df.rows |-> df.rows[k].Comment]
              = SelectSeq(video_comments, LAMBDA c : ~Excluded(c))
        /\ count_nan = Cardinality({i \in DOMAIN video_comments :
                                      Excluded(video_comments[i])})
        /\ Len(df.rows) + count_nan = Len(video_comments)

\* C6: the summary printed has exactly the keys Positive, Negative and
\* Neutral, each with the number of surviving rows that carry that label
\* (a label without rows is there with 0).
C6_SummaryThreeKeys ==
    summary.printed =>
        /\ DOMAIN summary.counts = Labels
        /\ \A l \in Labels :
              summary.counts[l] = Cardinality({k \in DOMAIN df.rows : df.rows[k].Sentiment = l})

\* C7: after the fetch raised HttpError the script goes on with no comments
\* and never ends by an exception; its summary is all zero with 0 excluded,
\* and with --csv y the file written has the header and no row.
C7_FetchFailureDegrades ==
    fetch_failed =>
        /\ "An HTTP error occurred" \in {console[k] : k \in DOMAIN console}
        /\ error = "none"
        /\ (summary.printed =>
              /\ count_nan = 0
              /\ \A l \in DOMAIN summary.counts : summary.counts[l] = 0)
        /\ (pc = "done" /\ args.csv = "y" =>
              /\ csv_file.written
              /\ csv_file.rows = <<>>)

\* C8: when --videoid is missing the script ends at the check with its
\* message and nothing after the check ever runs: no client is built, no
\* fetch, no cleaning, no analysis, no file.
C8_MissingVideoIdStops ==
    args.videoid \in {NoArg, ""} =>
        /\ pc \in {"check_videoid", "exited"}
        /\ steps \subseteq {"check_videoid"}
        /\ youtube = NoObject
        /\ fetched = <<>> /\ ~fetch_failed
        /\ sanitized = <<>>
        /\ classified = <<>>
        /\ ~summary.printed
        /\ ~csv_file.written
        /\ error = "none"
        /\ (pc = "exited" =>
              console = <<"Please specify videoid using the --videoid= parameter.">>)

C8_Witness ==
    /\ args.videoid = NoArg
    /\ args.csv = "y"
    /\ pc = "exited"
    /\ Len(console) = 1

\* C9: what remove_emoji returns holds no emoji the detector recognizes,
\* whatever the order in which the detected emoji were removed.  (SpecCall)
C9_NoEmojiLeft ==
    fn = "remove_emoji" => findall(ret) = {}

\* C10: the excluded entries are removed before the classifier runs: the
\* classifier is never called before the removal step, never called on an
\* excluded entry ('' or None, NaN once replaced), and every row that has a
\* label is the row of a comment that was not excluded.
C10_DropBeforeClassify ==
    /\ (classified # <<>> => "dropna" \in steps)
    /\ \A k \in 1..Len(classified) : classified[k] \notin {EMPTY, None, NaN}
    /\ ("Sentiment" \in {df.columns[k] : k \in DOMAIN df.columns} =>
          /\ Len(classified) = Len(df.rows)
          /\ \A k \in DOMAIN df.rows :
                /\ ~Excluded(video_comments[df.rows[k].idx])
                /\ df.rows[k].Comment = video_comments[df.rows[k].idx]
                /\ classified[k] = df.rows[k].Comment)

C10_Witness ==
    /\ pc = "print"
    /\ Len(classified) = 1
    /\ \E i \in DOMAIN video_comments : video_comments[i] = EMPTY
    /\ \E i \in DOMAIN video_comments : video_comments[i] = None

====
